---- MODULE Spec2Model ----
(***************************************************************************)
(* A model of lspc (jacobdufault/lspc): the JSON-RPC frame decoder         *)
(* (jsonrpc.SplitFunc driven by a bufio.Scanner), the per-worker           *)
(* languageServer handle (request ids, response handlers, the two reader   *)
(* goroutines) and the daemon's main loop (client calls, the               *)
(* languageServerClosed channel, the idle countdown timer).                *)
(*                                                                         *)
(* The specifications share the variables:                                 *)
(*   SpecScan    - a worker writes frames to its stdout pipe, a scanner    *)
(*                 reads them in chunks and splits them with SplitFunc;    *)
(*   SpecChannel - one languageServer handle and its operations;           *)
(*   SpecDaemon  - daemonMainLoop with its three event sources and time    *)
(*                 (SpecDaemonFair adds the scheduling fairness).          *)
(* SpecRegistry is the daemon with more clients and no clock, SpecURI is   *)
(* pathToURI on its own, SpecRace the accesses to l.onResponse, SpecFlood  *)
(* the daemon with many workers, SpecReader one worker with the scanner of *)
(* its stdoutReader, SpecWire marshalToWriter against SplitFunc, and       *)
(* SpecClient a client's doRPC.                                            *)
(***************************************************************************)
EXTENDS Integers, Sequences, FiniteSets, TLC

VARIABLES
    \* ---- the stdout pipe of a worker and the scanner reading it ----
    wire,       \* bytes written by the worker and not yet read
    wclosed,    \* the worker has closed its end of the pipe
    wframes,    \* number of frames (whole, damaged or partial) written so far
    sent,       \* payloads of the well-formed whole frames written, in order
    damaged,    \* a damaged frame has been written
    partial,    \* the last frame written was cut short
    buf,        \* the scanner's unconsumed bytes, s.buf[s.start:s.end]
    sEOF,       \* the reader returned io.EOF (s.err == io.EOF)
    sErr,       \* the error the split function returned ("nil" if none)
    spc,        \* where the Scan loop is: "top", "read" or "done"
    tokens,     \* the tokens returned by Scan so far
    consumed,   \* the sum of the advances taken so far
    last,       \* the last call of SplitFunc: its arguments and results
    \* ---- the languageServer handles ----
    ls,         \* handle -> the languageServer struct and its two readers
    languageServerClosed,   \* the channel of closed handles (a FIFO)
    calls,      \* every writeRequest/writeNotification call made, in order
    rx,         \* every frame stdoutReader decoded, with what it invoked
    \* ---- the daemon ----
    servers,    \* Server.servers: the handles registered, in order
    gShutdown,  \* the global gShutdown
    loopPc,     \* daemonMainLoop: "select", "serving", "done" or "crashed"
    call,       \* the client call being served, and how far it has got
    inFlight,   \* the number of client calls being served
    waiting,    \* clients connected and not yet served
    callsLeft,  \* clients still to connect
    reply,      \* the reply to the last call served
    timerActive,    \* countdown is running
    timerLeft,      \* ticks until countdown expires
    timerC,         \* values in countdown.C (a channel of capacity 1)
    idle,       \* ticks since the last call completed (or since startup)
    exitBy,     \* why the loop ended: "none", "timer" or "kill"
    \* ---- pathToURI ----
    uri,        \* a call of pathToURI: its argument, its loop, its result
    \* ---- the goroutines at l.onResponse ----
    access,     \* handle -> the writeRequest and the stdoutReader that have
                \* reached their access to l.onResponse and not yet made it
    \* ---- the socket and a client (doRPC) ----
    listening,  \* a daemon is listening on gSocket
    socketFile, \* the file gSocket exists
    client      \* a run of doRPC: where it is and what it has done

scanVars == <<wire, wclosed, wframes, sent, damaged, partial, buf, sEOF, sErr,
              spc, tokens, consumed, last>>

chanVars == <<ls, languageServerClosed, calls, rx>>

timerVars == <<timerActive, timerLeft, timerC>>

daemonVars == <<servers, gShutdown, loopPc, call, inFlight, waiting, callsLeft, reply,
                timerActive, timerLeft, timerC, idle, exitBy>>

netVars == <<listening, socketFile, client>>

auxVars == <<uri, access, netVars>>

vars == <<scanVars, chanVars, daemonVars, auxVars>>

----------------------------------------------------------------------------
(* Bounds of the model.                                                    *)

\* Frames a worker writes in one run.
MaxFrames == 2
\* A read returns 1..MaxChunk bytes, or everything that is available.
MaxChunk == 2

\* The payloads a worker sends: empty, short ones, and one whose length has
\* two decimal digits.
Payloads ==
    { <<>>, <<"a", "b">>, <<"a", "b", "a", "b", "a", "b", "a", "b", "a", "b">> }

\* The bytes a damaged header holds in place of the right one.
DamageBytes == {"x", "7"}

----------------------------------------------------------------------------
(* Helpers on sequences.                                                   *)

Min(a, b) == IF a <= b THEN a ELSE b

IsPrefix(s, t) == Len(s) <= Len(t) /\ s = SubSeq(t, 1, Len(s))

Drop(s, n) == SubSeq(s, n + 1, Len(s))

----------------------------------------------------------------------------
(* jsonrpc.SplitFunc                                                       *)

NoErr == "nil"
ErrEOF == "Expected more content"
ErrToken == "Unexpected token"
ErrAtoi == "strconv.Atoi: invalid syntax"

ContentLength ==
    <<"C", "o", "n", "t", "e", "n", "t", "-", "L", "e", "n", "g", "t", "h", ":", " ">>

Separator == <<"\r", "\n", "\r", "\n">>

Digits == <<"0", "1", "2", "3", "4", "5", "6", "7", "8", "9">>

IsDigit(c) == \E d \in 1..10 : Digits[d] = c

DigitVal(c) == (CHOOSE d \in 1..10 : Digits[d] = c) - 1

\* A maybeAddEOFError that never adds the error.
MaybeAddEOFErrorNever(atEOF) == NoErr

\* maybeAddEOFError: the error left by running out of input.
MaybeAddEOFError(atEOF) == IF atEOF THEN ErrEOF ELSE NoErr

\* readString, from byte k of content on, with the index i (0-based, as in the
\* code: data[i] is the model's data[i + 1]). It returns the new i and the error.
RECURSIVE ReadStringFrom(_, _, _, _, _)
ReadStringFrom(data, i, content, k, atEOF) ==
    IF k > Len(content) THEN [i |-> i, err |-> NoErr]
    ELSE IF i >= Len(data) THEN [i |-> i, err |-> MaybeAddEOFError(atEOF)]
    ELSE IF data[i + 1] # content[k] THEN [i |-> i, err |-> ErrToken]
    ELSE ReadStringFrom(data, i + 1, content, k + 1, atEOF)

\* A readString that reports a wrong byte only at the end of the stream.
ReadStringDeferred(data, i, content, atEOF) ==
    LET r == ReadStringFrom(data, i, content, 1, atEOF)
    IN  IF r.err = ErrToken /\ ~atEOF THEN [i |-> Len(data), err |-> NoErr] ELSE r

ReadString(data, i, content, atEOF) == ReadStringFrom(data, i, content, 1, atEOF)

\* The digit loop: the index of the first byte from i on that is no digit, or
\* Len(data) when the input runs out first.
RECURSIVE DigitEnd(_, _)
DigitEnd(data, i) ==
    IF i >= Len(data) THEN i
    ELSE IF ~IsDigit(data[i + 1]) THEN i
    ELSE DigitEnd(data, i + 1)

\* strconv.Atoi on a string of digits (the loop lets nothing else through): the
\* empty string is a syntax error. A value beyond the int range is an error too,
\* which takes more digits than a header of this model holds.
RECURSIVE AtoiVal(_, _)
AtoiVal(s, acc) ==
    IF s = <<>> THEN acc ELSE AtoiVal(Tail(s), 10 * acc + DigitVal(Head(s)))

Atoi(s) ==
    IF s = <<>> THEN [val |-> 0, err |-> ErrAtoi] ELSE [val |-> AtoiVal(s, 0), err |-> NoErr]

NoToken(e) == [advance |-> 0, hasToken |-> FALSE, token |-> <<>>, err |-> e]

SplitFunc(data, atEOF) ==
    LET lit == ReadString(data, 0, ContentLength, atEOF)
    IN  IF lit.err # NoErr THEN NoToken(lit.err)
        ELSE
        LET digitStart == lit.i
            i1 == DigitEnd(data, digitStart)
        IN  IF i1 >= Len(data) THEN NoToken(MaybeAddEOFError(atEOF))
            ELSE
            LET n == Atoi(SubSeq(data, digitStart + 1, i1))
            IN  IF n.err # NoErr THEN NoToken(n.err)
                ELSE
                LET sep == ReadString(data, i1, Separator, atEOF)
                IN  IF sep.err # NoErr THEN NoToken(sep.err)
                    ELSE IF sep.i + n.val > Len(data)
                    THEN NoToken(MaybeAddEOFError(atEOF))
                    ELSE [advance |-> sep.i + n.val,
                          hasToken |-> TRUE,
                          token |-> SubSeq(data, sep.i + 1, sep.i + n.val),
                          err |-> NoErr]

----------------------------------------------------------------------------
(* What a worker writes: 'Content-Length: <N>\r\n\r\n<N bytes>'.           *)

RECURSIVE Itoa(_)
Itoa(n) == IF n < 10 THEN <<Digits[n + 1]>> ELSE Itoa(n \div 10) \o <<Digits[(n % 10) + 1]>>

\* A header whose length counts the header's own line end.
HeaderCountsLineEnd(n) == ContentLength \o Itoa(n + 2) \o Separator

Header(n) == ContentLength \o Itoa(n) \o Separator

Frame(p) == Header(Len(p)) \o p

RECURSIVE Frames(_)
Frames(ps) == IF ps = <<>> THEN <<>> ELSE Frame(Head(ps)) \o Frames(Tail(ps))

----------------------------------------------------------------------------
(* The worker's side of the stdout pipe.                                   *)

\* The scanner sees the pipe only when it reads, so a write is taken when a
\* read is next; after a damaged frame the worker writes no more.
CanWrite ==
    /\ ~wclosed
    /\ ~damaged
    /\ wframes < MaxFrames
    /\ spc = "read" \/ (spc = "top" /\ buf = <<>> /\ ~sEOF)

WorkerWrite(p) ==
    /\ CanWrite
    /\ wire' = wire \o Frame(p)
    /\ wframes' = wframes + 1
    /\ sent' = Append(sent, p)
    /\ UNCHANGED <<wclosed, damaged, partial, buf, sEOF, sErr, spc, tokens, consumed, last>>
    /\ UNCHANGED <<chanVars, daemonVars, auxVars>>

\* A frame one byte of whose header is wrong.
WorkerWriteDamaged(p, k, b) ==
    /\ CanWrite
    /\ k \in 1..Len(Header(Len(p)))
    /\ Frame(p)[k] # b
    /\ wire' = wire \o [Frame(p) EXCEPT ![k] = b]
    /\ wframes' = wframes + 1
    /\ damaged' = TRUE
    /\ UNCHANGED <<wclosed, sent, partial, buf, sEOF, sErr, spc, tokens, consumed, last>>
    /\ UNCHANGED <<chanVars, daemonVars, auxVars>>

\* The worker dies having written only the first k bytes of a frame.
WorkerWritePartial(p, k) ==
    /\ CanWrite
    /\ k \in 1..(Len(Frame(p)) - 1)
    /\ wire' = wire \o SubSeq(Frame(p), 1, k)
    /\ wframes' = wframes + 1
    /\ partial' = TRUE
    /\ wclosed' = TRUE
    /\ UNCHANGED <<sent, damaged, buf, sEOF, sErr, spc, tokens, consumed, last>>
    /\ UNCHANGED <<chanVars, daemonVars, auxVars>>

WorkerClose ==
    /\ ~wclosed
    /\ spc = "read" \/ (spc = "top" /\ buf = <<>> /\ ~sEOF)
    /\ wclosed' = TRUE
    /\ UNCHANGED <<wire, wframes, sent, damaged, partial, buf, sEOF, sErr, spc, tokens,
                   consumed, last>>
    /\ UNCHANGED <<chanVars, daemonVars, auxVars>>

----------------------------------------------------------------------------
(* bufio.Scanner.Scan with SplitFunc as its split function.                *)

\* The read of the Scan loop: some bytes arrive, or the end of the stream.
ScanRead ==
    /\ \/ spc = "read"
       \/ spc = "top" /\ buf = <<>> /\ ~sEOF
    /\ \/ /\ wire # <<>>
          /\ \E n \in (1..Min(MaxChunk, Len(wire))) \cup {Len(wire)} :
                /\ buf' = buf \o SubSeq(wire, 1, n)
                /\ wire' = Drop(wire, n)
          /\ UNCHANGED sEOF
       \/ /\ wire = <<>>
          /\ wclosed
          /\ sEOF' = TRUE
          /\ UNCHANGED <<wire, buf>>
    /\ spc' = "top"
    /\ UNCHANGED <<wclosed, wframes, sent, damaged, partial, sErr, tokens, consumed, last>>
    /\ UNCHANGED <<chanVars, daemonVars, auxVars>>

\* The split of the Scan loop, taken when there are bytes or the stream ended.
ScanSplit ==
    /\ spc = "top"
    /\ buf # <<>> \/ sEOF
    /\ LET r == SplitFunc(buf, sEOF)
       IN  /\ last' = [called |-> TRUE, data |-> buf, atEOF |-> sEOF,
                       advance |-> r.advance, hasToken |-> r.hasToken,
                       token |-> r.token, err |-> r.err]
           /\ IF r.err # NoErr
              THEN /\ sErr' = r.err
                   /\ spc' = "done"
                   /\ UNCHANGED <<buf, tokens, consumed>>
              ELSE /\ buf' = Drop(buf, r.advance)
                   /\ consumed' = consumed + r.advance
                   /\ tokens' = IF r.hasToken THEN Append(tokens, r.token) ELSE tokens
                   /\ spc' = IF r.hasToken THEN "top"
                             ELSE IF sEOF THEN "done" ELSE "read"
                   /\ UNCHANGED sErr
    /\ UNCHANGED <<wire, wclosed, wframes, sent, damaged, partial, sEOF>>
    /\ UNCHANGED <<chanVars, daemonVars, auxVars>>

InitScan ==
    /\ wire = <<>>
    /\ wclosed = FALSE
    /\ wframes = 0
    /\ sent = <<>>
    /\ damaged = FALSE
    /\ partial = FALSE
    /\ buf = <<>>
    /\ sEOF = FALSE
    /\ sErr = NoErr
    /\ spc = "top"
    /\ tokens = <<>>
    /\ consumed = 0
    /\ last = [called |-> FALSE, data |-> <<>>, atEOF |-> FALSE, advance |-> 0,
               hasToken |-> FALSE, token |-> <<>>, err |-> NoErr]

\* The longest header and the longest frame of the model.
MaxHeaderLen == Len(Header(10))

MaxFrameLen == Len(Header(10)) + 10

NextScan ==
    \/ \E p \in Payloads : WorkerWrite(p)
    \/ \E p \in Payloads : \E k \in 1..MaxHeaderLen : \E b \in DamageBytes :
          WorkerWriteDamaged(p, k, b)
    \/ \E p \in Payloads : \E k \in 1..MaxFrameLen : WorkerWritePartial(p, k)
    \/ WorkerClose
    \/ ScanRead
    \/ ScanSplit

----------------------------------------------------------------------------
(* The languageServer handle: startLanguageServer, writeRequest,           *)
(* writeNotification, rawWriteMsg and the two reader goroutines.           *)

\* Handles the daemon can start in one run.
MaxServers == 3
\* writeRequest and writeNotification calls in one run.
MaxWrites == 3
\* Frames stdoutReader decodes in one run.
MaxRx == 2

\* The capacity of the languageServerClosed channel.
ChanCap == 1000

Handles == 1..MaxServers

\* Command lines that start a process.
GoodBins == {"cquery", "clangd"}

Directories == {"/w"}

\* The response handlers a caller passes to writeRequest; "nil" is no handler.
Continuations == {"onA", "nil"}

Methods == {"m"}

\* The params of the frames a worker sends.
FrameParams == {"p", "q"}

ErrWrite == "write: broken pipe"

\* What the scanner of stdoutReader can end with (the split function's errors;
\* the end of the stream is ErrEOF) and what a read of stderr can fail with.
ScanErrors == {ErrEOF, ErrToken}

StderrErrors == {"EOF"}

NoHandle ==
    [started |-> FALSE, bin |-> "", directory |-> "", nextRequestID |-> 0,
     onResponse |-> <<>>, err |-> NoErr, stdout |-> "idle", stderr |-> "idle",
     stdin |-> <<>>]

\* m[id] = f
MapPut(m, id, f) == [i \in DOMAIN m \cup {id} |-> IF i = id THEN f ELSE m[i]]

\* A rawWriteMsg that writes whatever l.err is.
RawWriteMsgUnchecked(l, method, id, ok) ==
    IF ok
    THEN [l |-> [l EXCEPT !.stdin = Append(@, [id |-> id, method |-> method])],
          wrote |-> TRUE, closed |-> FALSE]
    ELSE [l |-> [l EXCEPT !.err = ErrWrite], wrote |-> FALSE, closed |-> TRUE]

\* rawWriteMsg on the struct l; ok is whether the write to stdin succeeds. It
\* gives the struct afterwards, whether the message was written, and whether l
\* was sent on languageServerClosed.
RawWriteMsg(l, method, id, ok) ==
    IF l.err # NoErr
    THEN [l |-> l, wrote |-> FALSE, closed |-> FALSE]
    ELSE IF ok
    THEN [l |-> [l EXCEPT !.stdin = Append(@, [id |-> id, method |-> method])],
          wrote |-> TRUE, closed |-> FALSE]
    ELSE [l |-> [l EXCEPT !.err = ErrWrite], wrote |-> FALSE, closed |-> TRUE]

\* A writeRequest that reuses the id it was given.
WriteRequestSameID(l, method, onResponse, ok) ==
    LET id == l.nextRequestID
        f == IF onResponse = "nil" THEN "dummy" ELSE onResponse
    IN  RawWriteMsg([l EXCEPT !.onResponse = MapPut(@, id, f)], method, id, ok)

\* writeRequest
WriteRequest(l, method, onResponse, ok) ==
    LET id == l.nextRequestID
        f == IF onResponse = "nil" THEN "dummy" ELSE onResponse
    IN  RawWriteMsg([l EXCEPT !.nextRequestID = id + 1,
                              !.onResponse = MapPut(@, id, f)],
                    method, id, ok)

\* writeNotification
WriteNotification(l, method, ok) == RawWriteMsg(l, method, -1, ok)

\* writeInitialize
WriteInitialize(l, ok) == WriteRequest(l, "initialize", "onInitialize", ok)

\* The daemon process and its goroutines run.
ProcessAlive == loopPc \in {"select", "serving"}

\* A send on languageServerClosed; it blocks while the channel is full.
CanSend == Len(languageServerClosed) < ChanCap

CallRecord(h, kind, method, onResponse, before, r) ==
    [h |-> h, kind |-> kind, method |-> method, onResponse |-> onResponse,
     id |-> IF kind = "request" THEN before.nextRequestID ELSE -1,
     dead |-> before.err # NoErr, wrote |-> r.wrote, closed |-> r.closed]

\* The part of startLanguageServer after cmd.Start succeeded: the struct, the
\* two goroutines, writeInitialize.
SpawnHandle(h, bin, directory, ok) ==
    LET fresh == [NoHandle EXCEPT !.started = TRUE, !.bin = bin,
                                  !.directory = directory,
                                  !.stdout = "run", !.stderr = "run"]
        r == WriteInitialize(fresh, ok)
    IN  /\ ~ls[h].started
        /\ \A g \in Handles : g < h => ls[g].started
        /\ CanSend
        /\ ls' = [ls EXCEPT ![h] = r.l]
        /\ languageServerClosed' =
              IF r.closed THEN Append(languageServerClosed, h) ELSE languageServerClosed
        /\ calls' = Append(calls, CallRecord(h, "request", "initialize", "onInitialize", fresh, r))

\* A caller sends a request on a handle.
SendRequest(h, method, onResponse, ok) ==
    LET r == WriteRequest(ls[h], method, onResponse, ok)
    IN  /\ ls[h].started
        /\ Len(calls) < MaxWrites
        /\ CanSend
        /\ ls' = [ls EXCEPT ![h] = r.l]
        /\ languageServerClosed' =
              IF r.closed THEN Append(languageServerClosed, h) ELSE languageServerClosed
        /\ calls' = Append(calls, CallRecord(h, "request", method, onResponse, ls[h], r))
        /\ UNCHANGED <<rx, scanVars, daemonVars, auxVars>>

\* A caller sends a notification on a handle.
SendNotification(h, method, ok) ==
    LET r == WriteNotification(ls[h], method, ok)
    IN  /\ ls[h].started
        /\ Len(calls) < MaxWrites
        /\ CanSend
        /\ ls' = [ls EXCEPT ![h] = r.l]
        /\ languageServerClosed' =
              IF r.closed THEN Append(languageServerClosed, h) ELSE languageServerClosed
        /\ calls' = Append(calls, CallRecord(h, "notification", method, "nil", ls[h], r))
        /\ UNCHANGED <<rx, scanVars, daemonVars, auxVars>>

\* A lookup that takes the handler of the request before.
LookupOffByOne(l, id) ==
    IF id >= 0 /\ (id - 1) \in DOMAIN l.onResponse THEN <<l.onResponse[id - 1]>> ELSE <<>>

\* The handlers the body of stdoutReader's loop invokes for a frame with this
\* id (-1: the frame has none, header.ID keeps its -1).
Lookup(l, id) ==
    IF id >= 0 /\ id \in DOMAIN l.onResponse THEN <<l.onResponse[id]>> ELSE <<>>

\* The calls the body of stdoutReader's loop makes for a frame.
Dispatch(l, id, params) ==
    [k \in DOMAIN Lookup(l, id) |-> [handler |-> Lookup(l, id)[k], params |-> params]]

\* stdoutReader: Scan returned a token; its header has this id and params. The
\* map is left as it is.
StdoutFrame(h, id, params) ==
    /\ ProcessAlive
    /\ ls[h].stdout = "run"
    /\ Len(rx) < MaxRx
    /\ rx' = Append(rx, [h |-> h, id |-> id, params |-> params,
                         issued |-> ls[h].nextRequestID,
                         invoked |-> Dispatch(ls[h], id, params),
                         pending |-> DOMAIN ls[h].onResponse])
    /\ UNCHANGED <<ls, languageServerClosed, calls, scanVars, daemonVars, auxVars>>

\* stdoutReader: Scan returned false with this error; the reader records it
\* and sends the handle.
StdoutEnd(h, e) ==
    /\ ProcessAlive
    /\ ls[h].stdout = "run"
    /\ CanSend
    /\ ls' = [ls EXCEPT ![h].stdout = "done",
                        ![h].err = IF e # NoErr THEN e ELSE @]
    /\ languageServerClosed' = Append(languageServerClosed, h)
    /\ UNCHANGED <<calls, rx, scanVars, daemonVars, auxVars>>

\* stderrReader: a Read failed; the reader records the error, sends the handle
\* and leaves the loop.
StderrFail(h, e) ==
    /\ ProcessAlive
    /\ ls[h].stderr = "run"
    /\ CanSend
    /\ ls' = [ls EXCEPT ![h].stderr = "left", ![h].err = e]
    /\ languageServerClosed' = Append(languageServerClosed, h)
    /\ UNCHANGED <<calls, rx, scanVars, daemonVars, auxVars>>

\* stderrReader: the send after the loop.
StderrExit(h) ==
    /\ ProcessAlive
    /\ ls[h].stderr = "left"
    /\ CanSend
    /\ ls' = [ls EXCEPT ![h].stderr = "done"]
    /\ languageServerClosed' = Append(languageServerClosed, h)
    /\ UNCHANGED <<calls, rx, scanVars, daemonVars, auxVars>>

\* A handle is started on its own, outside the daemon.
ChanSpawn(bin, directory, ok) ==
    /\ SpawnHandle(1, bin, directory, ok)
    /\ UNCHANGED <<rx, scanVars, daemonVars, auxVars>>

InitChannel ==
    /\ ls = [h \in Handles |-> NoHandle]
    /\ languageServerClosed = <<>>
    /\ calls = <<>>
    /\ rx = <<>>

\* The ids a frame can carry: none (-1) and 0..MaxWrites-1, the last of which
\* has been issued only when every write was a request.
FrameIds == -1..(MaxWrites - 1)

NextChannel ==
    \/ \E d \in Directories : \E ok \in BOOLEAN : ChanSpawn("cquery", d, ok)
    \/ \E h \in Handles : \E m \in Methods : \E f \in Continuations : \E ok \in BOOLEAN :
          SendRequest(h, m, f, ok)
    \/ \E h \in Handles : \E m \in Methods : \E ok \in BOOLEAN : SendNotification(h, m, ok)
    \/ \E h \in Handles : \E id \in FrameIds : \E p \in FrameParams : StdoutFrame(h, id, p)
    \/ \E h \in Handles : \E e \in ScanErrors : StdoutEnd(h, e)
    \/ \E h \in Handles : \E e \in StderrErrors : StderrFail(h, e)
    \/ \E h \in Handles : StderrExit(h)

----------------------------------------------------------------------------
(* The daemon: the Server methods, daemonMainLoop, the countdown timer.    *)

\* Clients that connect in one run.
MaxClients == 2
\* The idle timeout (gTimeout), in ticks of the clock.
Timeout == 2

\* Command lines that start none: one that shellwords cannot parse, one whose
\* executable does not exist, and the empty one.
BadBins == {"cquery '", "nosuchexe", ""}

Bins == GoodBins \cup BadBins

\* What startLanguageServer does with a command line: shellwords.Parse fails
\* ("parse"), yields no word at all ("empty"), cmd.Start fails ("exec"), or the
\* process starts ("ok").
BinClass(bin) ==
    IF bin = "" THEN "empty"
    ELSE IF bin = "cquery '" THEN "parse"
    ELSE IF bin = "nosuchexe" THEN "exec"
    ELSE "ok"

CallKinds == {"KeepAlive", "Kill", "ServerPid", "Ls", "Start"}

NoCall == [kind |-> "none", bin |-> "", directory |-> "", pc |-> "none", h |-> 0]

\* A loop that starts over while a call is still being served.
LoopAtSelectOrServing == loopPc \in {"select", "serving"}

\* The loop is at its select statement.
LoopAtSelect == loopPc = "select"

\* A Reset that stops the timer.
ResetStops ==
    /\ timerActive' = FALSE
    /\ timerLeft' = 0
    /\ UNCHANGED timerC

\* countdown.Reset(timeout): the timer runs anew; what countdown.C holds stays.
Reset ==
    /\ timerActive' = TRUE
    /\ timerLeft' = Timeout
    /\ UNCHANGED timerC

\* A client connects (doRPC's rpc.Dial); the accept goroutine hands the
\* connections to the loop one by one.
ClientConnect ==
    /\ ProcessAlive
    /\ callsLeft > 0
    /\ callsLeft' = callsLeft - 1
    /\ waiting' = waiting + 1
    /\ UNCHANGED <<servers, gShutdown, loopPc, call, inFlight, reply, timerVars, idle,
                   exitBy, chanVars, scanVars, auxVars>>

\* case c := <-conn: the loop enters rpc.ServeConn, which reads the call.
LoopAccept(kind, bin, directory) ==
    /\ LoopAtSelect
    /\ waiting > 0
    /\ waiting' = waiting - 1
    /\ loopPc' = "serving"
    /\ inFlight' = inFlight + 1
    /\ call' = [kind |-> kind, bin |-> bin, directory |-> directory, pc |-> "call", h |-> 0]
    /\ UNCHANGED <<servers, gShutdown, callsLeft, reply, timerVars, idle, exitBy,
                   chanVars, scanVars, auxVars>>

Serving(kind) ==
    /\ loopPc = "serving"
    /\ call.kind = kind
    /\ call.pc = "call"

\* Server.KeepAlive
CallKeepAlive ==
    /\ Serving("KeepAlive")
    /\ Reset
    /\ reply' = "ok"
    /\ call' = [call EXCEPT !.pc = "replied"]
    /\ UNCHANGED <<servers, gShutdown, loopPc, inFlight, waiting, callsLeft, idle, exitBy,
                   chanVars, scanVars, auxVars>>

\* Server.Kill
CallKill ==
    /\ Serving("Kill")
    /\ gShutdown' = TRUE
    /\ reply' = "ok"
    /\ call' = [call EXCEPT !.pc = "replied"]
    /\ UNCHANGED <<servers, loopPc, inFlight, waiting, callsLeft, timerVars, idle, exitBy,
                   chanVars, scanVars, auxVars>>

\* Server.ServerPid
CallServerPid ==
    /\ Serving("ServerPid")
    /\ reply' = "pid"
    /\ call' = [call EXCEPT !.pc = "replied"]
    /\ UNCHANGED <<servers, gShutdown, loopPc, inFlight, waiting, callsLeft, timerVars,
                   idle, exitBy, chanVars, scanVars, auxVars>>

\* A listing from the last handle to the first.
LsLinesReversed ==
    [i \in 1..Len(servers) |->
        <<ls[servers[Len(servers) + 1 - i]].bin, "in",
          ls[servers[Len(servers) + 1 - i]].directory>>]

\* What Ls lists: a "<args> in <directory>" line for each registered handle.
LsLines == [i \in 1..Len(servers) |-> <<ls[servers[i]].bin, "in", ls[servers[i]].directory>>]

\* Server.Ls
CallLs ==
    /\ Serving("Ls")
    /\ reply' = LsLines
    /\ call' = [call EXCEPT !.pc = "replied"]
    /\ UNCHANGED <<servers, gShutdown, loopPc, inFlight, waiting, callsLeft, timerVars,
                   idle, exitBy, chanVars, scanVars, auxVars>>

\* Server.Start, up to the return of startLanguageServer with a handle.
CallStartSpawn(h, ok) ==
    /\ Serving("Start")
    /\ BinClass(call.bin) = "ok"
    /\ SpawnHandle(h, call.bin, call.directory, ok)
    /\ call' = [call EXCEPT !.pc = "spawned", !.h = h]
    /\ UNCHANGED <<servers, gShutdown, loopPc, inFlight, waiting, callsLeft, reply,
                   timerVars, idle, exitBy, rx, scanVars, auxVars>>

\* Server.Start: the handle is appended to s.servers.
CallStartRegister ==
    /\ loopPc = "serving"
    /\ call.pc = "spawned"
    /\ servers' = Append(servers, call.h)
    /\ reply' = "ok"
    /\ call' = [call EXCEPT !.pc = "replied"]
    /\ UNCHANGED <<gShutdown, loopPc, inFlight, waiting, callsLeft, timerVars, idle,
                   exitBy, chanVars, scanVars, auxVars>>

\* Server.Start: startLanguageServer returned an error.
CallStartError ==
    /\ Serving("Start")
    /\ BinClass(call.bin) \in {"parse", "exec"}
    /\ reply' = "error"
    /\ call' = [call EXCEPT !.pc = "replied"]
    /\ UNCHANGED <<servers, gShutdown, loopPc, inFlight, waiting, callsLeft, timerVars,
                   idle, exitBy, chanVars, scanVars, auxVars>>

\* Server.Start: exe[0] of an empty word list panics, which ends the process
\* with the socket file left behind.
CallStartPanic ==
    /\ Serving("Start")
    /\ BinClass(call.bin) = "empty"
    /\ loopPc' = "crashed"
    /\ listening' = FALSE
    /\ UNCHANGED <<servers, gShutdown, call, inFlight, waiting, callsLeft, reply,
                   timerVars, idle, exitBy, chanVars, scanVars, uri, access,
                   socketFile, client>>

\* A loop that never looks at gShutdown.
ShutdownIgnored == FALSE

\* if gShutdown { break loop }
ShutdownRequested == gShutdown

\* An rpc.ServeConn that returns as soon as the client is gone, whether the
\* method has returned or not.
LoopServedEarly ==
    /\ loopPc = "serving"
    /\ call.pc \in {"spawned", "replied"}
    /\ inFlight' = inFlight - 1
    /\ call' = NoCall
    /\ reply' = "none"
    /\ loopPc' = "select"
    /\ Reset
    /\ idle' = 0
    /\ UNCHANGED <<exitBy, servers, gShutdown, waiting, callsLeft, chanVars, scanVars,
                   auxVars>>

\* The deferred listener.Close() that runs as daemonMainLoop returns; closing
\* a unix listener removes its socket file.
ListenerClose ==
    /\ listening' = FALSE
    /\ socketFile' = FALSE

\* The client has its reply and closes the connection: rpc.ServeConn returns,
\* and the loop checks gShutdown and resets the countdown, or breaks and
\* daemonMainLoop returns.
LoopServed ==
    /\ loopPc = "serving"
    /\ call.pc = "replied"
    /\ inFlight' = inFlight - 1
    /\ call' = NoCall
    /\ reply' = "none"
    /\ IF ShutdownRequested
       THEN /\ loopPc' = "done"
            /\ exitBy' = "kill"
            /\ ListenerClose
            /\ UNCHANGED <<timerVars, idle>>
       ELSE /\ loopPc' = "select"
            /\ Reset
            /\ idle' = 0
            /\ UNCHANGED <<exitBy, listening, socketFile>>
    /\ UNCHANGED <<servers, gShutdown, waiting, callsLeft, chanVars, scanVars, uri,
                   access, client>>

\* A removal that matches on command line and directory.
WithoutByName(s, closed) ==
    SelectSeq(s, LAMBDA h : ls[h].bin # ls[closed].bin \/ ls[h].directory # ls[closed].directory)

\* A removal that drops only the first entry of the registry when it is this
\* handle.
WithoutAtHead(s, closed) == IF s # <<>> /\ Head(s) = closed THEN Tail(s) ELSE s

\* s.servers without every entry that is this handle.
Without(s, closed) == SelectSeq(s, LAMBDA h : h # closed)

\* case closed := <-languageServerClosed
LoopClosed ==
    /\ LoopAtSelect
    /\ languageServerClosed # <<>>
    /\ servers' = Without(servers, Head(languageServerClosed))
    /\ languageServerClosed' = Tail(languageServerClosed)
    /\ UNCHANGED <<ls, calls, rx, gShutdown, loopPc, call, inFlight, waiting, callsLeft,
                   reply, timerVars, idle, exitBy, scanVars, auxVars>>

\* A timer case that empties the registry on its way out.
LoopTimerClears ==
    /\ LoopAtSelect
    /\ timerC > 0
    /\ timerC' = timerC - 1
    /\ loopPc' = "done"
    /\ exitBy' = "timer"
    /\ ListenerClose
    /\ servers' = <<>>
    /\ UNCHANGED <<gShutdown, call, inFlight, waiting, callsLeft, reply,
                   timerActive, timerLeft, idle, chanVars, scanVars, uri, access, client>>

\* case <-countdown.C: the loop breaks and daemonMainLoop returns.
LoopTimer ==
    /\ LoopAtSelect
    /\ timerC > 0
    /\ timerC' = timerC - 1
    /\ loopPc' = "done"
    /\ exitBy' = "timer"
    /\ ListenerClose
    /\ UNCHANGED <<servers, gShutdown, call, inFlight, waiting, callsLeft, reply,
                   timerActive, timerLeft, idle, chanVars, scanVars, uri, access, client>>

\* The accept goroutine: listener.Accept fails once the listener is closed, and
\* the goroutine sets gShutdown and returns (if the process lives that long).
AcceptFails ==
    /\ loopPc = "done"
    /\ ~listening
    /\ ~gShutdown
    /\ gShutdown' = TRUE
    /\ UNCHANGED <<servers, loopPc, call, inFlight, waiting, callsLeft, reply, timerVars,
                   idle, exitBy, chanVars, scanVars, auxVars>>

\* Time passes; a timer that is due fires first.
Tick ==
    /\ ProcessAlive
    /\ ~(timerActive /\ timerLeft = 0)
    /\ timerLeft' = IF timerActive THEN timerLeft - 1 ELSE timerLeft
    /\ idle' = Min(idle + 1, Timeout)
    /\ UNCHANGED <<servers, gShutdown, loopPc, call, inFlight, waiting, callsLeft, reply,
                   timerActive, timerC, exitBy, chanVars, scanVars, auxVars>>

\* The runtime fires the timer: a send on countdown.C that does not block (the
\* value is dropped when the channel already holds one).
TimerFire ==
    /\ ProcessAlive
    /\ timerActive
    /\ timerLeft = 0
    /\ timerActive' = FALSE
    /\ timerC' = 1
    /\ UNCHANGED <<servers, gShutdown, loopPc, call, inFlight, waiting, callsLeft, reply,
                   timerLeft, idle, exitBy, chanVars, scanVars, auxVars>>

InitDaemon ==
    /\ servers = <<>>
    /\ gShutdown = FALSE
    /\ loopPc = "select"
    /\ call = NoCall
    /\ inFlight = 0
    /\ waiting = 0
    /\ callsLeft = MaxClients
    /\ reply = "none"
    /\ timerActive = TRUE
    /\ timerLeft = Timeout
    /\ timerC = 0
    /\ idle = 0
    /\ exitBy = "none"

NextDaemon ==
    \/ ClientConnect
    \/ \E k \in CallKinds \ {"Start"} : LoopAccept(k, "", "")
    \/ \E bin \in Bins : \E d \in Directories : LoopAccept("Start", bin, d)
    \/ CallKeepAlive
    \/ CallKill
    \/ CallServerPid
    \/ CallLs
    \/ \E h \in Handles : \E ok \in BOOLEAN : CallStartSpawn(h, ok)
    \/ CallStartRegister
    \/ CallStartError
    \/ CallStartPanic
    \/ LoopServed
    \/ LoopClosed
    \/ LoopTimer
    \/ AcceptFails
    \/ Tick
    \/ TimerFire
    \* the loop never reads which error a handle has, so one stands for all
    \/ \E h \in Handles : StdoutEnd(h, ErrEOF)
    \/ \E h \in Handles : \E e \in StderrErrors : StderrFail(h, e)
    \/ \E h \in Handles : StderrExit(h)

----------------------------------------------------------------------------
(* The registry on its own: clients that start workers and list them, workers
   that exit, over a time too short for the countdown to matter.           *)

\* Clients that connect in one run of the registry.
RegistryClients == 4

InitRegistry ==
    /\ servers = <<>>
    /\ gShutdown = FALSE
    /\ loopPc = "select"
    /\ call = NoCall
    /\ inFlight = 0
    /\ waiting = 0
    /\ callsLeft = RegistryClients
    /\ reply = "none"
    /\ timerActive = TRUE
    /\ timerLeft = Timeout
    /\ timerC = 0
    /\ idle = 0
    /\ exitBy = "none"

NextRegistry ==
    \/ ClientConnect
    \/ LoopAccept("Ls", "", "")
    \/ \E bin \in GoodBins : \E d \in Directories : LoopAccept("Start", bin, d)
    \/ CallLs
    \/ \E h \in Handles : \E ok \in BOOLEAN : CallStartSpawn(h, ok)
    \/ CallStartRegister
    \/ LoopServed
    \/ LoopClosed
    \/ \E h \in Handles : StdoutEnd(h, ErrEOF)

----------------------------------------------------------------------------
(* pathToURI                                                               *)

\* The longest path converted.
MaxPathLen == 3

\* The runes of a path: the twelve the map escapes, the backslash, and three
\* that are left alone.
PathRunes ==
    {" ", "#", "$", "&", "(", ")", "+", ",", ":", ";", "?", "@", "\\", "/", "a", "%"}

Paths == UNION {[1..n -> PathRunes] : n \in 0..MaxPathLen}

\* The map m of pathToURI.
EscapeMap ==
    [c \in {" ", "#", "$", "&", "(", ")", "+", ",", ":", ";", "?", "@"} |->
        CASE c = " " -> <<"%", "2", "0">>
          [] c = "#" -> <<"%", "2", "3">>
          [] c = "$" -> <<"%", "2", "4">>
          [] c = "&" -> <<"%", "2", "6">>
          [] c = "(" -> <<"%", "2", "8">>
          [] c = ")" -> <<"%", "2", "9">>
          [] c = "+" -> <<"%", "2", "B">>
          [] c = "," -> <<"%", "2", "C">>
          [] c = ":" -> <<"%", "3", "A">>
          [] c = ";" -> <<"%", "3", "B">>
          [] c = "?" -> <<"%", "3", "F">>
          [] c = "@" -> <<"%", "4", "0">>]

FileScheme == <<"f", "i", "l", "e", ":", "/", "/">>

\* strings.Replace(s, old, new, 1) for one-byte old and new.
RECURSIVE ReplaceFirst(_, _, _)
ReplaceFirst(s, old, new) ==
    IF s = <<>> THEN <<>>
    ELSE IF Head(s) = old THEN <<new>> \o Tail(s)
    ELSE <<Head(s)>> \o ReplaceFirst(Tail(s), old, new)

\* strings.Replace(s, old, new, -1) for one-byte old and new.
RECURSIVE ReplaceAll(_, _, _)
ReplaceAll(s, old, new) ==
    IF s = <<>> THEN <<>>
    ELSE <<IF Head(s) = old THEN new ELSE Head(s)>> \o ReplaceAll(Tail(s), old, new)

NoConversion == [path |-> <<>>, i |-> 0, result |-> <<>>, done |-> TRUE, out |-> <<>>]

\* One turn of the loop over absolutePath.
URIStep ==
    /\ ~uri.done
    /\ uri.i < Len(uri.path)
    /\ LET c == uri.path[uri.i + 1]
       IN  uri' = [uri EXCEPT !.i = @ + 1,
                              !.result = IF c \in DOMAIN EscapeMap
                                         THEN @ \o EscapeMap[c]
                                         ELSE @ \o <<c>>]
    /\ UNCHANGED <<scanVars, chanVars, daemonVars, access, netVars>>

\* The return statement.
URIReturn ==
    /\ ~uri.done
    /\ uri.i = Len(uri.path)
    /\ uri' = [uri EXCEPT !.done = TRUE,
                          !.out = FileScheme \o ReplaceAll(uri.result, "\\", "/")]
    /\ UNCHANGED <<scanVars, chanVars, daemonVars, access, netVars>>

InitURI ==
    \E path \in Paths :
        uri = [path |-> path, i |-> 0, result |-> <<>>, done |-> FALSE, out |-> <<>>]

NextURI == URIStep \/ URIReturn

----------------------------------------------------------------------------
(* writeRequest and stdoutReader step by step at l.onResponse: the sender
   runs in the goroutine of the client call, the reader in its own, and
   nothing orders the store of line 191 and the lookup of line 267.        *)

NoWrite == [busy |-> FALSE, id |-> -1, method |-> "", onResponse |-> "", ok |-> FALSE]

NoRead == [busy |-> FALSE, id |-> -1, params |-> ""]

NoAccess == [h \in Handles |-> [w |-> NoWrite, r |-> NoRead]]

\* writeRequest down to the store: the id is taken, the counter advanced.
WriteRequestEnter(l, h, method, onResponse, ok) ==
    /\ ~access[h].w.busy
    /\ ls' = [ls EXCEPT ![h] = [l EXCEPT !.nextRequestID = @ + 1]]
    /\ access' = [access EXCEPT ![h].w = [busy |-> TRUE, id |-> l.nextRequestID,
                                          method |-> method, onResponse |-> onResponse,
                                          ok |-> ok]]

\* startLanguageServer as far as the store of writeInitialize's writeRequest;
\* both readers are running by then.
RaceSpawn(bin, directory, ok) ==
    /\ ~ls[1].started
    /\ WriteRequestEnter([NoHandle EXCEPT !.started = TRUE, !.bin = bin,
                                          !.directory = directory,
                                          !.stdout = "run", !.stderr = "run"],
                         1, "initialize", "onInitialize", ok)
    /\ UNCHANGED <<languageServerClosed, calls, rx, scanVars, daemonVars, uri, netVars>>

\* A caller's writeRequest as far as the store.
RaceRequest(h, method, onResponse, ok) ==
    /\ ls[h].started
    /\ Len(calls) < MaxWrites - 1
    /\ WriteRequestEnter(ls[h], h, method, onResponse, ok)
    /\ UNCHANGED <<languageServerClosed, calls, rx, scanVars, daemonVars, uri, netVars>>

\* The store l.onResponse[id] = onResponse and the rawWriteMsg after it.
WriteRequestStore(h) ==
    LET w == access[h].w
        f == IF w.onResponse = "nil" THEN "dummy" ELSE w.onResponse
        r == RawWriteMsg([ls[h] EXCEPT !.onResponse = MapPut(@, w.id, f)],
                         w.method, w.id, w.ok)
    IN  /\ ProcessAlive
        /\ w.busy
        /\ CanSend
        /\ ls' = [ls EXCEPT ![h] = r.l]
        /\ languageServerClosed' =
              IF r.closed THEN Append(languageServerClosed, h) ELSE languageServerClosed
        /\ calls' = Append(calls, CallRecord(h, "request", w.method, w.onResponse,
                                             [ls[h] EXCEPT !.nextRequestID = w.id], r))
        /\ access' = [access EXCEPT ![h].w = NoWrite]
        /\ UNCHANGED <<rx, scanVars, daemonVars, uri, netVars>>

\* stdoutReader has a frame with an id >= 0 and comes to the lookup.
StdoutLookupEnter(h, id, params) ==
    /\ ProcessAlive
    /\ ls[h].stdout = "run"
    /\ ~access[h].r.busy
    /\ Len(rx) < MaxRx
    /\ id >= 0
    /\ access' = [access EXCEPT ![h].r = [busy |-> TRUE, id |-> id, params |-> params]]
    /\ UNCHANGED <<chanVars, scanVars, daemonVars, uri, netVars>>

\* The lookup response, has := l.onResponse[header.ID] and the call it leads to.
StdoutLookup(h) ==
    LET r == access[h].r
    IN  /\ ProcessAlive
        /\ r.busy
        /\ rx' = Append(rx, [h |-> h, id |-> r.id, params |-> r.params,
                             issued |-> ls[h].nextRequestID,
                             invoked |-> Dispatch(ls[h], r.id, r.params),
                             pending |-> DOMAIN ls[h].onResponse])
        /\ access' = [access EXCEPT ![h].r = NoRead]
        /\ UNCHANGED <<ls, languageServerClosed, calls, scanVars, daemonVars, uri, netVars>>

\* The store and the lookup overlap and the runtime notices: "fatal error:
\* concurrent map read and map write" ends the process. (That they overlap
\* unnoticed is the store and the lookup above in either order.)
MapFault(h) ==
    /\ ProcessAlive
    /\ access[h].w.busy
    /\ access[h].r.busy
    /\ loopPc' = "crashed"
    /\ listening' = FALSE
    /\ UNCHANGED <<servers, gShutdown, call, inFlight, waiting, callsLeft, reply,
                   timerVars, idle, exitBy, chanVars, scanVars, uri, access,
                   socketFile, client>>

NextRace ==
    \/ \E d \in Directories : \E ok \in BOOLEAN : RaceSpawn("cquery", d, ok)
    \/ \E h \in Handles : \E m \in Methods : \E f \in Continuations : \E ok \in BOOLEAN :
          RaceRequest(h, m, f, ok)
    \/ \E h \in Handles : WriteRequestStore(h)
    \/ \E h \in Handles : \E id \in FrameIds : \E p \in FrameParams :
          StdoutLookupEnter(h, id, p)
    \/ \E h \in Handles : StdoutLookup(h)
    \/ \E h \in Handles : MapFault(h)

----------------------------------------------------------------------------
(* The daemon with many workers: clients start FloodServers workers one
   call after the other, a last client connects and leaves its call
   unfinished (rpc.ServeConn returns only when the client hangs up), and
   then the workers exit one after the other. Every step is a step of the
   daemon above; of its interleavings this takes one.                      *)

\* Workers started in one run.
FloodServers == 334

FloodHandles == 1..FloodServers

\* The handles started so far; they are started in the order of their numbers.
Started == {h \in DOMAIN ls : ls[h].started}

\* The handles both of whose readers have ended; the workers exit in the
\* order in which they were started.
Exited == {h \in DOMAIN ls : ls[h].stdout = "done" /\ ls[h].stderr = "done"}

\* The next worker to exit (0 if there is none).
NextToExit ==
    IF Cardinality(Exited) < Cardinality(Started) THEN Cardinality(Exited) + 1 ELSE 0

\* The loop is in the call of the last client, which does not finish.
Stalled == loopPc = "serving" /\ call.kind = "ServerPid" /\ call.pc = "call"

FloodConnect ==
    /\ loopPc = "select"
    /\ waiting = 0
    /\ ClientConnect

FloodAccept ==
    IF Cardinality(Started) < FloodServers
    THEN \E d \in Directories : LoopAccept("Start", "cquery", d)
    ELSE LoopAccept("ServerPid", "", "")

FloodSpawn ==
    /\ Cardinality(Started) < FloodServers
    /\ CallStartSpawn(Cardinality(Started) + 1, TRUE)

FloodStderrFail ==
    /\ Stalled
    /\ NextToExit # 0
    /\ \E e \in StderrErrors : StderrFail(NextToExit, e)

FloodStderrExit ==
    /\ Stalled
    /\ NextToExit # 0
    /\ StderrExit(NextToExit)

FloodStdoutEnd ==
    /\ Stalled
    /\ NextToExit # 0
    /\ ls[NextToExit].stderr = "done"
    /\ StdoutEnd(NextToExit, ErrEOF)

InitFlood ==
    /\ ls = [h \in FloodHandles |-> NoHandle]
    /\ languageServerClosed = <<>>
    /\ calls = <<>>
    /\ rx = <<>>
    /\ servers = <<>>
    /\ gShutdown = FALSE
    /\ loopPc = "select"
    /\ call = NoCall
    /\ inFlight = 0
    /\ waiting = 0
    /\ callsLeft = FloodServers + 1
    /\ reply = "none"
    /\ timerActive = TRUE
    /\ timerLeft = Timeout
    /\ timerC = 0
    /\ idle = 0
    /\ exitBy = "none"

NextFlood ==
    \/ FloodConnect
    \/ FloodAccept
    \/ FloodSpawn
    \/ CallStartRegister
    \/ LoopServed
    \/ FloodStderrFail
    \/ FloodStderrExit
    \/ FloodStdoutEnd

----------------------------------------------------------------------------
(* marshalToWriter against SplitFunc: envelopes are written to a pipe by
   marshalToWriter, and a scanner with SplitFunc reads the other end.       *)

\* The serialized envelopes, jw's buffer: JSON objects, so never empty; one
\* has a length of two digits.
EnvelopeBodies == Payloads \ {<<>>}

\* fmt.Fprintf(w, "Content-Length: %d\r\n\r\n", jw.Size())
MarshalHeader(p) ==
    /\ CanWrite
    /\ ~partial
    /\ wire' = wire \o Header(Len(p))
    /\ wframes' = wframes + 1
    /\ sent' = Append(sent, p)
    /\ partial' = TRUE
    /\ UNCHANGED <<wclosed, damaged, buf, sEOF, sErr, spc, tokens, consumed, last>>
    /\ UNCHANGED <<chanVars, daemonVars, auxVars>>

\* jw.DumpTo(w), of the envelope whose header was written last.
MarshalBody ==
    /\ partial
    /\ ~wclosed
    /\ spc = "read" \/ (spc = "top" /\ buf = <<>> /\ ~sEOF)
    /\ wire' = wire \o sent[Len(sent)]
    /\ partial' = FALSE
    /\ UNCHANGED <<wclosed, wframes, sent, damaged, buf, sEOF, sErr, spc, tokens,
                   consumed, last>>
    /\ UNCHANGED <<chanVars, daemonVars, auxVars>>

NextWire ==
    \/ \E p \in EnvelopeBodies : MarshalHeader(p)
    \/ MarshalBody
    \/ WorkerClose
    \/ ScanRead
    \/ ScanSplit

----------------------------------------------------------------------------
(* A client: doRPC and ensureDaemon. The daemon is seen from outside here,
   as a socket that something listens on or not and a file that exists or
   not; either can change while the client runs.                           *)

NoClient ==
    [pc |-> "none", serviceMethod |-> "", dials |-> 0, failed |-> 0, ensured |-> 0,
     spawned |-> 0, slept |-> FALSE, conn |-> FALSE, called |-> FALSE, exit |-> "none"]

\* conn, e := rpc.Dial("unix", gSocket), the first one.
ClientDial ==
    /\ client.pc = "dial"
    /\ client' = IF listening
                 THEN [client EXCEPT !.dials = @ + 1, !.conn = TRUE, !.pc = "call"]
                 ELSE [client EXCEPT !.dials = @ + 1, !.failed = @ + 1, !.pc = "ensure"]
    /\ UNCHANGED <<listening, socketFile, scanVars, chanVars, daemonVars, uri, access>>

\* ensureDaemon(): nothing if the socket file exists; else the daemon is
\* started, and an error of os.Executable or of p.Start panics.
ClientEnsureDaemon(ok) ==
    /\ client.pc = "ensure"
    /\ client' = IF socketFile
                 THEN [client EXCEPT !.ensured = @ + 1, !.pc = "sleep"]
                 ELSE IF ok
                 THEN [client EXCEPT !.ensured = @ + 1, !.spawned = @ + 1, !.pc = "sleep"]
                 ELSE [client EXCEPT !.ensured = @ + 1, !.pc = "exited", !.exit = "panic"]
    /\ UNCHANGED <<listening, socketFile, scanVars, chanVars, daemonVars, uri, access>>

\* time.Sleep(time.Millisecond * 250)
ClientSleep ==
    /\ client.pc = "sleep"
    /\ client' = [client EXCEPT !.slept = TRUE, !.pc = "redial"]
    /\ UNCHANGED <<listening, socketFile, scanVars, chanVars, daemonVars, uri, access>>

\* The second rpc.Dial; if it fails too: os.Exit(2).
ClientRedial ==
    /\ client.pc = "redial"
    /\ client' = IF listening
                 THEN [client EXCEPT !.dials = @ + 1, !.conn = TRUE, !.pc = "call"]
                 ELSE [client EXCEPT !.dials = @ + 1, !.failed = @ + 1,
                                     !.pc = "exited", !.exit = "2"]
    /\ UNCHANGED <<listening, socketFile, scanVars, chanVars, daemonVars, uri, access>>

\* e = conn.Call(serviceMethod, args, reply); conn.Close(); an error: os.Exit(1).
ClientCall(ok) ==
    /\ client.pc = "call"
    /\ client' = IF ok
                 THEN [client EXCEPT !.called = TRUE, !.conn = FALSE, !.pc = "returned"]
                 ELSE [client EXCEPT !.called = TRUE, !.conn = FALSE,
                                     !.pc = "exited", !.exit = "1"]
    /\ UNCHANGED <<listening, socketFile, scanVars, chanVars, daemonVars, uri, access>>

\* A daemon (the one this client started, or another) reaches net.Listen.
DaemonListens ==
    /\ ~listening
    /\ listening' = TRUE
    /\ socketFile' = TRUE
    /\ UNCHANGED <<client, scanVars, chanVars, daemonVars, uri, access>>

\* The daemon goes: by its loop ending (the socket file is removed) or by a
\* crash or a signal (the file stays).
DaemonGoes(clean) ==
    /\ listening
    /\ listening' = FALSE
    /\ socketFile' = IF clean THEN FALSE ELSE socketFile
    /\ UNCHANGED <<client, scanVars, chanVars, daemonVars, uri, access>>

InitClient ==
    /\ listening \in BOOLEAN
    /\ socketFile \in BOOLEAN
    /\ \E m \in CallKinds : client = [NoClient EXCEPT !.pc = "dial", !.serviceMethod = m]

NextClient ==
    \/ ClientDial
    \/ \E ok \in BOOLEAN : ClientEnsureDaemon(ok)
    \/ ClientSleep
    \/ ClientRedial
    \/ \E ok \in BOOLEAN : ClientCall(ok)
    \/ DaemonListens
    \/ \E clean \in BOOLEAN : DaemonGoes(clean)

----------------------------------------------------------------------------
(* One worker from its Start call to its end, with the scanner of its
   stdoutReader at work on what the worker writes: the daemon, the handle
   and the decoder together.                                               *)

\* The payloads the worker sends here.
ReaderPayloads == { <<>>, <<"a", "b">> }

\* Where a header is damaged here: in the literal, in the length, in the
\* separator.
DamageAt == {1, Len(ContentLength) + 1, Len(ContentLength) + 2}

\* stdoutReader of handle 1 is in its loop.
ReaderRuns ==
    /\ ProcessAlive
    /\ ls[1].stdout = "run"

\* stdoutReader after its loop: Scan has returned false, scanner.Err() is what
\* the split function left.
ReaderEnd ==
    /\ spc = "done"
    /\ StdoutEnd(1, sErr)

\* The daemon after one Start call: the worker runs, its handle is registered,
\* the handshake has been written or the write has failed; no other client
\* comes.
InitReader ==
    /\ \E d \in Directories : \E ok \in BOOLEAN :
          LET fresh == [NoHandle EXCEPT !.started = TRUE, !.bin = "cquery",
                                        !.directory = d,
                                        !.stdout = "run", !.stderr = "run"]
              r == WriteInitialize(fresh, ok)
          IN  /\ ls = [h \in Handles |-> IF h = 1 THEN r.l ELSE NoHandle]
              /\ languageServerClosed = IF r.closed THEN <<1>> ELSE <<>>
              /\ calls = <<CallRecord(1, "request", "initialize", "onInitialize", fresh, r)>>
    /\ rx = <<>>
    /\ servers = <<1>>
    /\ gShutdown = FALSE
    /\ loopPc = "select"
    /\ call = NoCall
    /\ inFlight = 0
    /\ waiting = 0
    /\ callsLeft = 0
    /\ reply = "none"
    /\ timerActive = TRUE
    /\ timerLeft = Timeout
    /\ timerC = 0
    /\ idle = 0
    /\ exitBy = "none"

NextReader ==
    \/ ReaderRuns /\ \E p \in ReaderPayloads : WorkerWrite(p)
    \/ ReaderRuns /\ \E p \in ReaderPayloads : \E k \in DamageAt :
          \E b \in DamageBytes : WorkerWriteDamaged(p, k, b)
    \/ ReaderRuns /\ \E p \in ReaderPayloads : \E k \in 1..MaxFrameLen :
          WorkerWritePartial(p, k)
    \/ ReaderRuns /\ WorkerClose
    \/ ReaderRuns /\ ScanRead
    \/ ReaderRuns /\ ScanSplit
    \/ ReaderEnd
    \/ \E e \in StderrErrors : StderrFail(1, e)
    \/ StderrExit(1)
    \/ LoopClosed

----------------------------------------------------------------------------
(* The specifications.                                                     *)

\* net.Listen has made the socket; no client is under way.
InitNet ==
    /\ listening = TRUE
    /\ socketFile = TRUE
    /\ client = NoClient

Init ==
    InitScan /\ InitChannel /\ InitDaemon /\ uri = NoConversion /\ access = NoAccess /\ InitNet

SpecScan == Init /\ [][NextScan]_vars

SpecChannel == Init /\ [][NextChannel]_vars

SpecDaemon == Init /\ [][NextDaemon]_vars

StartRegistry ==
    InitScan /\ InitChannel /\ InitRegistry /\ uri = NoConversion /\ access = NoAccess /\ InitNet

SpecRegistry == StartRegistry /\ [][NextRegistry]_vars

StartURI == InitScan /\ InitChannel /\ InitDaemon /\ InitURI /\ access = NoAccess /\ InitNet

SpecURI == StartURI /\ [][NextURI]_vars

SpecRace == Init /\ [][NextRace]_vars

SpecWire == Init /\ [][NextWire]_vars

StartReader ==
    /\ InitScan /\ InitReader /\ uri = NoConversion
    /\ access = NoAccess /\ InitNet

SpecReader == StartReader /\ [][NextReader]_vars

StartClient ==
    /\ InitScan /\ InitChannel /\ InitDaemon /\ uri = NoConversion
    /\ access = NoAccess /\ InitClient

SpecClient == StartClient /\ [][NextClient]_vars

StartFlood == InitScan /\ InitFlood /\ uri = NoConversion /\ access = NoAccess /\ InitNet

SpecFlood == StartFlood /\ [][NextFlood]_vars

\* The Go scheduler runs every goroutine that can run, select takes each ready
\* case sooner or later, the runtime fires a due timer, time passes, and a
\* client of doRPC closes its connection once it has the reply.
Fairness ==
    /\ WF_vars(LoopClosed)
    /\ WF_vars(LoopTimer)
    /\ WF_vars(LoopServed)
    /\ WF_vars(Tick)
    /\ WF_vars(TimerFire)

SpecDaemonFair == SpecDaemon /\ Fairness

\* The method of a call runs in a goroutine of its own (net/rpc), which the
\* scheduler runs too; each of these steps moves the call on or ends the loop.
ServeCall ==
    \/ CallKeepAlive
    \/ CallKill
    \/ CallServerPid
    \/ CallLs
    \/ \E h \in Handles : \E ok \in BOOLEAN : CallStartSpawn(h, ok)
    \/ CallStartRegister
    \/ CallStartError
    \/ CallStartPanic

\* The scheduling the registry depends on: the select statement takes a
\* waiting notification, a call runs to its reply, the client then hangs up.
SpecDaemonLive ==
    /\ SpecDaemon
    /\ WF_vars(LoopClosed)
    /\ WF_vars(LoopServed)
    /\ WF_<<call, loopPc>>(ServeCall)

----------------------------------------------------------------------------
(* The frame decoder's claims, checked under SpecScan.                     *)

\* C1. Round trip: on a stream of well-formed whole frames, read in chunks of any
\* sizes, the tokens are the payloads written, in order; every decode resumes
\* at the byte after the previous payload (what has been consumed is exactly
\* the frames of the tokens returned); the split function reports no header
\* error; and when the scanner stops every whole frame has been returned. A
\* single 'Content-Length: 0\r\n\r\n' is one such stream.
C1_RoundTrip ==
    (~damaged /\ ~partial) =>
        /\ IsPrefix(tokens, sent)
        /\ consumed = Len(Frames(tokens))
        /\ sErr \in {NoErr, ErrEOF}
        /\ spc = "done" => tokens = sent

\* The bytes of data that are available differ from the literal somewhere.
LiteralBad(data) ==
    \E k \in 1..Min(Len(data), Len(ContentLength)) : data[k] # ContentLength[k]

LiteralGood(data) ==
    /\ Len(data) >= Len(ContentLength)
    /\ ~LiteralBad(data)

\* The byte right after the literal is there and is no digit.
LengthBad(data) ==
    /\ LiteralGood(data)
    /\ Len(data) > Len(ContentLength)
    /\ ~IsDigit(data[Len(ContentLength) + 1])

\* The digits are followed by bytes that differ from the separator somewhere.
SeparatorBad(data) ==
    /\ LiteralGood(data)
    /\ \E e \in (Len(ContentLength) + 1)..Len(data) :
          /\ \A k \in (Len(ContentLength) + 1)..e : IsDigit(data[k])
          /\ e < Len(data)
          /\ ~IsDigit(data[e + 1])
          /\ \E j \in 1..Len(Separator) :
                /\ e + j <= Len(data)
                /\ data[e + j] # Separator[j]

Malformed(data) == LiteralBad(data) \/ LengthBad(data) \/ SeparatorBad(data)

\* C2. A malformed header is rejected in the very call that sees it, at the
\* end of the stream or not: an error, no token, advance 0.
C2_MalformedRejectedAtOnce ==
    (last.called /\ Malformed(last.data)) =>
        /\ last.err # NoErr
        /\ ~last.hasToken
        /\ last.advance = 0

\* SplitFunc has been handed, with more input still possible, a buffer whose
\* literal and digits are right and whose separator is wrong, and rejected it.
C2_Witness ==
    /\ last.called
    /\ ~last.atEOF
    /\ SeparatorBad(last.data)
    /\ ~LengthBad(last.data)
    /\ last.err = ErrToken

\* data is a well-formed frame cut short.
ProperPrefixOfFrame(data) ==
    \E p \in Payloads :
        /\ Len(data) < Len(Frame(p))
        /\ data = SubSeq(Frame(p), 1, Len(data))

\* C3. A proper prefix of a well-formed frame: with more input possible
\* SplitFunc consumes nothing and waits (advance 0, no token, no error); at
\* the end of the stream it returns the truncation error and no token.
C3_TruncationVersusWaiting ==
    (last.called /\ ProperPrefixOfFrame(last.data)) =>
        IF last.atEOF
        THEN last.err = ErrEOF /\ ~last.hasToken
        ELSE last.advance = 0 /\ ~last.hasToken /\ last.err = NoErr

----------------------------------------------------------------------------
(* The handle's claims, checked under SpecChannel.                         *)

\* The calls made on handle h, in order.
CallsOn(h) == SelectSeq(calls, LAMBDA c : c.h = h)

RequestsOn(h) == SelectSeq(calls, LAMBDA c : c.h = h /\ c.kind = "request")

\* The continuation the caller registered for id on h (the dummy handler when
\* the caller passed none).
Registered(h, id) ==
    LET c == CHOOSE c \in {calls[k] : k \in DOMAIN calls} :
                 c.h = h /\ c.kind = "request" /\ c.id = id
    IN  IF c.onResponse = "nil" THEN "dummy" ELSE c.onResponse

\* C4. Response correlation: a decoded frame whose id i >= 0 has been issued
\* invokes the continuation registered for i, and only it, with the frame's
\* params; a frame whose id was never issued, or that has no id, invokes nothing.
C4_ResponseCorrelation ==
    \A k \in DOMAIN rx :
        rx[k].invoked =
            IF rx[k].id >= 0 /\ rx[k].id < rx[k].issued
            THEN <<[handler |-> Registered(rx[k].h, rx[k].id), params |-> rx[k].params]>>
            ELSE <<>>

\* A response to a request sent after the handshake has reached its handler,
\* and a frame with an id never issued has reached none.
C4_Witness ==
    /\ \E k \in DOMAIN rx :
          /\ rx[k].id = 1
          /\ rx[k].invoked = <<[handler |-> "onA", params |-> "q"]>>
    /\ \E k \in DOMAIN rx : rx[k].id >= rx[k].issued /\ rx[k].invoked = <<>>

\* C5. At most once: the reader removes the entry of the id whose continuation
\* it invokes, and no continuation is invoked by two frames.
C5_AtMostOnce ==
    /\ \A k \in DOMAIN rx : rx[k].invoked # <<>> => rx[k].id \notin rx[k].pending
    /\ \A j, k \in DOMAIN rx :
          (j # k /\ rx[j].h = rx[k].h /\ rx[j].id = rx[k].id)
              => (rx[j].invoked = <<>> \/ rx[k].invoked = <<>>)

\* C6. Request ids: the requests on a handle carry 0, 1, 2, ... in the order
\* they were made, whatever notifications come between; the first call on a
\* handle is the initialize request, with id 0; a notification carries no id
\* and leaves no continuation (the handlers recorded are those of the requests).
C6_RequestIds ==
    \A h \in Handles :
        /\ \A k \in DOMAIN RequestsOn(h) : RequestsOn(h)[k].id = k - 1
        /\ ls[h].nextRequestID = Len(RequestsOn(h))
        /\ DOMAIN ls[h].onResponse = 0..(Len(RequestsOn(h)) - 1)
        /\ \A k \in DOMAIN CallsOn(h) :
              CallsOn(h)[k].kind = "notification" => CallsOn(h)[k].id = -1
        /\ ls[h].started =>
              /\ CallsOn(h) # <<>>
              /\ CallsOn(h)[1].method = "initialize"
              /\ CallsOn(h)[1].kind = "request"
              /\ CallsOn(h)[1].id = 0
        /\ \A k \in DOMAIN ls[h].stdin :
              ls[h].stdin[k].method = "initialize" <=> ls[h].stdin[k].id = 0

\* After the handshake a notification and then a request have been sent, and
\* the request has id 1.
C6_Witness ==
    /\ Len(CallsOn(1)) = 3
    /\ CallsOn(1)[2].kind = "notification"
    /\ CallsOn(1)[3].kind = "request"
    /\ CallsOn(1)[3].id = 1
    /\ CallsOn(1)[3].wrote

\* This step is a writeRequest on a handle whose err is set.
RequestOnDead ==
    /\ Len(calls') = Len(calls) + 1
    /\ calls'[Len(calls')].kind = "request"
    /\ calls'[Len(calls')].dead

----------------------------------------------------------------------------
(* The daemon's claims, checked under SpecDaemon and SpecDaemonFair.       *)

\* The loop takes a handle from languageServerClosed in this step.
TakesNotification == Len(languageServerClosed') < Len(languageServerClosed)

\* The loop takes the timer's value from countdown.C in this step.
TakesTimer == timerC' < timerC

\* The countdown is set anew in this step.
ResetsTimer ==
    /\ timerActive' /\ timerLeft' = Timeout
    /\ ~timerActive \/ timerLeft # Timeout

\* C8. One call at a time, to completion: never two calls in flight, and while
\* a call is in flight the loop takes no notification, no timer value and no
\* other call, removes nothing from the registry, and resets the countdown
\* only as the call ends (a reset during the call is KeepAlive's own).
C8_OneCallAtATime ==
    /\ [](inFlight <= 1)
    /\ [][inFlight >= 1 =>
             /\ ~TakesNotification
             /\ ~TakesTimer
             /\ inFlight' <= inFlight
             /\ \A k \in DOMAIN servers : k \in DOMAIN servers' /\ servers'[k] = servers[k]
             /\ (ResetsTimer /\ inFlight' >= 1) => call.kind = "KeepAlive"
       ]_vars

\* While a call is being served a closed handle, an expired timer and another
\* client are all waiting for the loop.
C8_Witness ==
    /\ inFlight = 1
    /\ languageServerClosed # <<>>
    /\ timerC = 1
    /\ waiting >= 1

\* C9. The loop ends on the idle timer only when the full timeout has passed
\* since the last call completed (or since startup).
C9_TimerOnlyAfterFullTimeout ==
    exitBy = "timer" => idle >= Timeout

\* C10. Idle shutdown: at the select statement the countdown is running and
\* expires no later than Timeout after the last call completed, or has expired
\* with its value in countdown.C (so the loop always has an event to come);
\* taking a notification leaves the countdown alone; and once no client call
\* is left to come the loop ends, by the timer.
C10_IdleShutdown ==
    /\ [](loopPc = "select" =>
             IF timerActive THEN timerLeft <= Timeout - idle ELSE timerC = 1)
    /\ [][TakesNotification => UNCHANGED <<timerActive, timerLeft, timerC, idle>>]_vars
    /\ (loopPc = "select" /\ waiting = 0 /\ callsLeft = 0)
           ~> (loopPc = "done" /\ exitBy = "timer")

\* The loop has ended by the timer, a full timeout after the last call, having
\* started a handle and then removed it on its notification.
C10_Witness ==
    /\ loopPc = "done"
    /\ exitBy = "timer"
    /\ idle = Timeout
    /\ callsLeft = 0
    /\ ls[1].started
    /\ servers = <<>>

\* The loop leaves rpc.ServeConn in this step.
CallEnds == loopPc = "serving" /\ loopPc' # "serving"

\* The things the loop does: it takes a client, a notification or the timer's
\* value, changes the registry, sets the countdown.
LoopIdle ==
    UNCHANGED <<servers, languageServerClosed, waiting, inFlight, call, timerActive,
                timerLeft, timerC, loopPc, exitBy>>

\* C11. Kill schedules shutdown: Kill replies ok and sets the flag; the step in
\* which the Kill call ends takes the loop out of its for statement (the
\* listener is closed as daemonMainLoop returns), with no further client taken,
\* no notification taken, the registry and the countdown as they were; and once
\* the loop has ended nothing is handled any more.
C11_KillShutsDown ==
    /\ []((call.kind = "Kill" /\ call.pc = "replied") => (reply = "ok" /\ gShutdown))
    /\ [][(CallEnds /\ call.kind = "Kill") =>
             /\ loopPc' = "done"
             /\ exitBy' = "kill"
             /\ UNCHANGED <<servers, languageServerClosed, waiting, timerActive,
                            timerLeft, timerC>>
       ]_vars
    /\ [][loopPc = "done" => LoopIdle]_vars

\* The loop has ended on a Kill while another client was waiting and the
\* countdown had expired; neither is served.
C11_Witness ==
    /\ loopPc = "done"
    /\ exitBy = "kill"
    /\ waiting >= 1
    /\ timerC = 1

\* The Start call being served gets its reply in this step.
StartReplies == call.kind = "Start" /\ call.pc # "replied" /\ call'.pc = "replied"

\* C12. Start has two outcomes, whatever the command line and the directory:
\* ok with one new handle appended at the end of the registry, or an error
\* with the registry as it was and no handle (and no reader) made by the call;
\* and the daemon goes on running either way.
C12_StartTwoOutcomes ==
    /\ [](loopPc # "crashed")
    /\ [][StartReplies =>
             \/ /\ reply' = "ok"
                /\ call.h \in Handles
                /\ \A k \in DOMAIN servers : servers[k] # call.h
                /\ servers' = Append(servers, call.h)
             \/ /\ reply' = "error"
                /\ call.h = 0
                /\ servers' = servers
                /\ ls' = ls
       ]_vars

InRegistry(h) == \E k \in DOMAIN servers : servers[k] = h

\* C13. Removal from the registry is by identity and only in reaction: a
\* handle leaves s.servers only in a step in which the loop takes that very
\* handle from languageServerClosed; such a step removes that handle and keeps
\* every other entry, in order; and a step in which a handle's err changes
\* leaves every other handle and the registry as they were.
C13_RemovalByIdentity ==
    [][/\ \A h \in Handles :
             (InRegistry(h) /\ ~(\E k \in DOMAIN servers' : servers'[k] = h)) =>
                 /\ TakesNotification
                 /\ Head(languageServerClosed) = h
       /\ TakesNotification =>
             servers' = SelectSeq(servers, LAMBDA g : g # Head(languageServerClosed))
       /\ \A h \in Handles :
             (ls[h].started /\ ls'[h].err # ls[h].err) =>
                 /\ servers' = servers
                 /\ \A g \in Handles : g # h => ls'[g] = ls[g]
    ]_vars

\* Two handles with the same command line and directory were registered; the
\* first has failed and been removed on its notification, the second is still
\* registered and has no error.
C13_Witness ==
    /\ servers = <<2>>
    /\ ls[1].started
    /\ ls[1].err # NoErr
    /\ ls[2].err = NoErr
    /\ ls[1].bin = ls[2].bin
    /\ ls[1].directory = ls[2].directory

\* C14. Ls replies with one "<command line> in <directory>" line for each
\* handle in s.servers, in the order of s.servers, which is the order in which
\* the handles still registered were started; and it changes neither the
\* registry nor any handle.
C14_ListInStartOrder ==
    /\ [](\A i, j \in DOMAIN servers : i < j => servers[i] < servers[j])
    /\ []((call.kind = "Ls" /\ call.pc = "replied") =>
             /\ Len(reply) = Len(servers)
             /\ \A i \in DOMAIN servers :
                   reply[i] = <<ls[servers[i]].bin, "in", ls[servers[i]].directory>>)
    /\ [][(call.kind = "Ls" /\ call.pc # call'.pc) => UNCHANGED <<servers, ls>>]_vars

\* Three handles were started, the second has gone on its notification, and
\* Ls has listed the first and the third, which differ, in that order.
C14_Witness ==
    /\ call.kind = "Ls"
    /\ call.pc = "replied"
    /\ servers = <<1, 3>>
    /\ ls[1].bin # ls[3].bin
    /\ Len(reply) = 2

----------------------------------------------------------------------------
(* pathToURI's claim, checked under SpecURI.                               *)

\* What a rune of the path becomes in the URI.
EscapedRune(c) ==
    CASE c = "\\" -> <<"/">>
      [] c = " " -> <<"%", "2", "0">>
      [] c = "#" -> <<"%", "2", "3">>
      [] c = "$" -> <<"%", "2", "4">>
      [] c = "&" -> <<"%", "2", "6">>
      [] c = "(" -> <<"%", "2", "8">>
      [] c = ")" -> <<"%", "2", "9">>
      [] c = "+" -> <<"%", "2", "B">>
      [] c = "," -> <<"%", "2", "C">>
      [] c = ":" -> <<"%", "3", "A">>
      [] c = ";" -> <<"%", "3", "B">>
      [] c = "?" -> <<"%", "3", "F">>
      [] c = "@" -> <<"%", "4", "0">>
      [] OTHER -> <<c>>

RECURSIVE EscapedPath(_)
EscapedPath(path) ==
    IF path = <<>> THEN <<>> ELSE EscapedRune(Head(path)) \o EscapedPath(Tail(path))

\* C15. pathToURI(path) is "file://" followed by the path with every
\* backslash replaced by "/" and every reserved character by its percent
\* escape, the other characters unchanged and in order.
C15_PathEscaping ==
    (uri.done /\ uri.out # <<>>) => uri.out = FileScheme \o EscapedPath(uri.path)

\* A path with two backslashes and a reserved character has been converted.
C15_Witness ==
    /\ uri.done
    /\ uri.path = <<"\\", ":", "\\">>
    /\ uri.out = FileScheme \o <<"/", "%", "3", "A", "/">>

----------------------------------------------------------------------------
(* The readers' claims, checked under SpecChannel.                         *)

\* C16. First writer wins: once a handle's err is set, by stdoutReader, by
\* stderrReader or by a failed write, no step changes it.
C16_FirstErrorWins ==
    [][\A h \in Handles : ls[h].err # NoErr => ls'[h].err = ls[h].err]_vars

\* How often h is in the channel.
Published(h) ==
    Cardinality({k \in DOMAIN languageServerClosed : languageServerClosed[k] = h})

\* The sends on languageServerClosed that failed writes on h have made.
WriteSends(h) == Cardinality({k \in DOMAIN calls : calls[k].h = h /\ calls[k].closed})

\* C17. Once per reader: with nothing taken from the channel yet, a handle is
\* in it once for stdoutReader if that has stopped, once for stderrReader if
\* its read has failed, and once for each failed write; no reader has sent it
\* twice, and a reader that has ended has sent it.
C17_OncePerReader ==
    \A h \in Handles :
        Published(h) =
            (IF ls[h].stdout = "done" THEN 1 ELSE 0)
            + (IF ls[h].stderr \in {"left", "done"} THEN 1 ELSE 0)
            + WriteSends(h)

\* stdoutReader invokes something for a frame in this step, on handle h.
Invokes(h) ==
    /\ Len(rx') = Len(rx) + 1
    /\ rx'[Len(rx')].h = h
    /\ rx'[Len(rx')].invoked # <<>>

\* C18. Abandonment: once a handle's err is set (and the handle sent on the
\* channel with it), stdoutReader invokes none of its handlers any more.
C18_AbandonedOnTermination ==
    [][\A h \in Handles : ls[h].err # NoErr => ~Invokes(h)]_vars

\* C19. The accesses to l.onResponse are serialized: in no state are a
\* writeRequest at its store and the stdoutReader of the same handle at its
\* lookup both under way.
C19_TableAccessSerialized ==
    \A h \in Handles : ~(access[h].w.busy /\ access[h].r.busy)

----------------------------------------------------------------------------
(* The channel's claim, checked under SpecFlood.                           *)

\* C20. A send on languageServerClosed never blocks: whenever a reader is at a
\* send (here stderrReader between its two sends, line 294 next), the channel
\* holds fewer handles than its capacity.
C20_PublishNeverBlocks ==
    (\E h \in DOMAIN ls : ls[h].stderr = "left") => Len(languageServerClosed) < ChanCap

----------------------------------------------------------------------------
(* The registry's liveness, checked under SpecDaemonLive.                  *)

\* A reader of h has ended, or a write to its stdin has failed.
Terminated(h) ==
    \/ ls[h].stdout = "done"
    \/ ls[h].stderr \in {"left", "done"}
    \/ WriteSends(h) > 0

\* h is registered and has terminated: its removal is due.
Pending(h) == InRegistry(h) /\ Terminated(h)

\* C21. De-registration: a registered handle one of whose readers has ended,
\* or a write to which has failed, leaves the registry unless the loop ends
\* first (whenever a removal is due, a state follows in which none is, so
\* each handle whose removal was due has left); the step that takes a handle from the channel leaves the registry
\* without it and with every other entry, so the second and third
\* notification of a handle change nothing; and a handle enters the registry
\* only in the Start call that made it, so one removed does not come back.
C21_Deregistration ==
    /\ (\E h \in Handles : Pending(h))
          ~> ((\A h \in Handles : ~Pending(h)) \/ ~ProcessAlive)
    /\ [][TakesNotification =>
             /\ servers' = SelectSeq(servers, LAMBDA g : g # Head(languageServerClosed))
             /\ ~InRegistry(Head(languageServerClosed)) => servers' = servers
       ]_vars
    /\ [][\A h \in Handles :
             (~InRegistry(h) /\ \E k \in DOMAIN servers' : servers'[k] = h) =>
                 (loopPc = "serving" /\ call.pc = "spawned" /\ call.h = h)
       ]_vars

\* A handle was registered, both its readers have ended, the loop has taken
\* all three notifications and is at its select statement; the handle is gone
\* and another, started after it, is still registered.
C21_Witness ==
    /\ loopPc = "select"
    /\ ls[1].stdout = "done"
    /\ ls[1].stderr = "done"
    /\ languageServerClosed = <<>>
    /\ servers = <<2>>
    /\ ~Terminated(2)

----------------------------------------------------------------------------
(* Shutdown and the workers, checked under SpecDaemon.                     *)

\* The loop ends in this step.
LoopEnds == loopPc \in {"select", "serving"} /\ loopPc' = "done"

\* C22. No cascade: the step in which the loop ends, on the timer or on Kill,
\* closes the listener and changes neither the registry nor any handle (its
\* err, its readers, what has been written to its stdin) nor the channel of
\* closed handles; once the loop has ended the listener is closed, and no
\* later step changes the registry, a handle or the channel either.
C22_NoCascade ==
    /\ [][LoopEnds =>
             /\ exitBy' \in {"timer", "kill"}
             /\ ~listening'
             /\ UNCHANGED <<servers, ls, languageServerClosed, calls, rx>>
       ]_vars
    /\ [](loopPc = "done" => ~listening)
    /\ [][loopPc = "done" => UNCHANGED <<servers, ls, languageServerClosed, calls, rx>>]_vars

\* The loop has ended on the timer with two handles registered: one whose
\* readers both run, and one that has failed and whose notification is still
\* in the channel.
C22_Witness ==
    /\ loopPc = "done"
    /\ exitBy = "timer"
    /\ ~listening
    /\ servers = <<1, 2>>
    /\ ls[1].err = NoErr /\ ls[1].stdout = "run" /\ ls[1].stderr = "run"
    /\ ls[2].err # NoErr
    /\ languageServerClosed # <<>>

----------------------------------------------------------------------------
(* Registration before de-registration, checked under SpecDaemon.          *)

\* The sends on languageServerClosed made for h so far: one by stdoutReader
\* when it has ended, one by stderrReader when its read has failed and one
\* more when it has ended, one by each failed write.
SendsOf(h) ==
    (IF ls[h].stdout = "done" THEN 1 ELSE 0)
    + (IF ls[h].stderr = "left" THEN 1 ELSE IF ls[h].stderr = "done" THEN 2 ELSE 0)
    + WriteSends(h)

\* The notifications of h that the loop has taken.
Taken(h) == SendsOf(h) - Published(h)

\* C24. Registration comes first: while the Start call that made a handle has
\* not appended it, the loop has taken none of its notifications, however
\* many its readers and its handshake have sent; the first notification of a
\* handle that the loop takes finds it in the registry; and a registered
\* handle that has terminated has a notification in the channel still, so it
\* is not left behind.
C24_RegisteredBeforeRemoved ==
    /\ [](\A h \in Handles :
             (loopPc = "serving" /\ call.pc = "spawned" /\ call.h = h) =>
                 (~InRegistry(h) /\ Taken(h) = 0))
    /\ [][TakesNotification =>
             (Taken(Head(languageServerClosed)) = 0 => InRegistry(Head(languageServerClosed)))
       ]_vars
    /\ [](\A h \in Handles : (InRegistry(h) /\ Terminated(h)) => Published(h) > 0)

\* The handshake write of a worker failed, so that its first notification was
\* in the channel before Start appended the handle, and its stdoutReader has
\* ended too; the call has ended since, and the loop has taken one of the
\* notifications and removed the handle.
C24_Witness ==
    /\ loopPc = "select"
    /\ ls[1].started
    /\ WriteSends(1) = 1
    /\ ls[1].stdout = "done"
    /\ ls[1].stderr = "run"
    /\ Taken(1) = 1
    /\ Published(1) = 1
    /\ servers = <<>>

----------------------------------------------------------------------------
(* The error of a closed handle, checked under SpecReader.                 *)

\* C25. Every handle in languageServerClosed has its err set, so the loop
\* never takes one whose err is nil (the branch "has closed" without an error
\* is dead): the scanner of stdoutReader never stops without an error, since
\* at the end of the stream SplitFunc is called once more with atEOF = true
\* and, with no bytes left after the last whole frame, returns "Expected more
\* content"; stderrReader and a failed write set err before they send.
C25_NotifiedHasError ==
    /\ [](spc = "done" => sErr # NoErr)
    /\ []((last.called /\ last.atEOF /\ last.data = <<>>) =>
             (last.err = ErrEOF /\ ~last.hasToken))
    /\ [](\A k \in DOMAIN languageServerClosed : ls[languageServerClosed[k]].err # NoErr)
    /\ [][TakesNotification => ls[Head(languageServerClosed)].err # NoErr]_vars

\* The worker wrote whole frames and closed its stdout; the scanner returned
\* them all and then stopped at the frame boundary with "Expected more
\* content"; nothing else had failed, and the loop has taken the handle,
\* with that error, and removed it.
C25_Witness ==
    /\ wclosed /\ ~damaged /\ ~partial
    /\ sent # <<>>
    /\ tokens = sent
    /\ last.atEOF /\ last.data = <<>>
    /\ WriteSends(1) = 0
    /\ ls[1].stderr = "run"
    /\ ls[1].stdout = "done"
    /\ ls[1].err = ErrEOF
    /\ languageServerClosed = <<>>
    /\ servers = <<>>

----------------------------------------------------------------------------
(* The encoder against the decoder, checked under SpecWire.                *)

\* The bytes of the frames of the bodies ps: for a body of n bytes the
\* literal, the decimal digits of n, the separator and n bytes.
RECURSIVE SumLen(_)
SumLen(ps) ==
    IF ps = <<>> THEN 0
    ELSE Len(ContentLength) + (IF Len(Head(ps)) < 10 THEN 1 ELSE 2) + Len(Separator)
         + Len(Head(ps)) + SumLen(Tail(ps))

\* C26. Round trip of marshalToWriter and SplitFunc: however the bytes are
\* cut into reads, the tokens are the envelopes written, one for one and in
\* the order written; between two writes the bytes written (those consumed
\* and those still to be read or split) are, for each envelope of n bytes,
\* the header with n in decimal and n bytes more; the splitter reports
\* nothing but the end of the stream; and once nothing is left to read, or
\* the scanner has stopped, every envelope has been returned.
C26_EncodeDecode ==
    /\ IsPrefix(tokens, sent)
    /\ ~partial =>
          /\ sErr \in {NoErr, ErrEOF}
          /\ consumed + Len(buf) + Len(wire) = SumLen(sent)
          /\ (buf = <<>> /\ wire = <<>>) => tokens = sent
          /\ spc = "done" => tokens = sent

\* Two envelopes, the second with a body whose length has two digits, have
\* been written and returned, and the scanner has stopped at the end of the
\* stream.
C26_Witness ==
    /\ Len(sent) = 2
    /\ Len(sent[1]) = 2
    /\ Len(sent[2]) = 10
    /\ tokens = sent
    /\ spc = "done"
    /\ sErr = ErrEOF

----------------------------------------------------------------------------
(* The client's claim, checked under SpecClient.                           *)

\* C23. The client's fallback: it dials at most twice and starts at most one
\* daemon; it issues its call only on a connection it has; a second dial
\* comes only after the first has failed, ensureDaemon has run and the client
\* has slept; it ends with the fatal error (exit status 2) only when both
\* dials have failed, and then without having issued the call; and a client
\* that has ended after its first dial failed has dialled a second time.
C23_ConnectFallback ==
    /\ client.dials <= 2
    /\ client.spawned <= 1
    /\ client.called => client.failed < client.dials
    /\ client.pc = "call" => client.conn
    /\ client.dials = 2 => (client.failed >= 1 /\ client.ensured = 1 /\ client.slept)
    /\ client.exit = "2" => (client.failed = 2 /\ ~client.called)
    /\ (client.pc \in {"returned", "exited"} /\ client.failed >= 1) => client.dials = 2

====
